---- MODULE Spec2Model ----
(***************************************************************************)
(* wstomp: the session multiplexer task stomp_handler_task                 *)
(* (src/src/stomp_handler.rs) together with the two bounded channels that  *)
(* connect it to the application (src/src/client.rs), the connect call     *)
(* that creates a session and the reconnection supervisor                  *)
(* (src/src/connect.rs).                                                   *)
(*                                                                         *)
(* The session task is one tokio task looping over a select! with three    *)
(* branches (inbound WebSocket stream, outbound application channel,       *)
(* heartbeat interval) and an else branch.  One action below models one    *)
(* branch handler up to its next suspension point: the handler either      *)
(* returns to the select!, leaves the loop, or suspends inside             *)
(* stomp_tx.send(..).await because the inbound channel is full.            *)
(*                                                                         *)
(* The STOMP codec and the WebSocket transport are external libraries.     *)
(* The transport is the environment: the peer chooses the frames, a sink   *)
(* write may fail.  The codec is a small concrete codec with the three     *)
(* decode outcomes and the two encode outcomes of the real one.            *)
(*                                                                         *)
(* Four specifications share the state: Spec is a session built on an      *)
(* open connection, StallSpec is that session once both channels are full, *)
(* ConnSpec is one connect call with the session it creates, SupSpec is    *)
(* the supervisor with its sessions reduced to their position.             *)
(***************************************************************************)
EXTENDS Integers, Sequences, FiniteSets, TLC

(***************************************************************************)
(* Bounds of the model.                                                    *)
(***************************************************************************)
\* Total number of stimuli the environment gives the session: stream items
\* of the peer, frames sent by the application and heartbeat ticks.
MaxInputs == 3
\* mpsc::channel(100) for the outbound channel, scaled down.
AppChannelCapacity == 2
\* mpsc::channel(100) for the inbound channel, scaled down.
StompChannelCapacity == 2
\* Number of latest attempts of the supervisor whose outcome, callback and
\* session are kept in the state.
MaxAttempts == 3

(***************************************************************************)
(* Bytes and payloads.  Byte 0 is the NUL that ends a STOMP frame.         *)
(***************************************************************************)
NUL == 0

\* Payloads a WebSocket frame of the peer may carry: a frame body without
\* its end, a lone frame end, a whole STOMP frame.
Payloads == { <<1>>, <<NUL>>, <<1, NUL>> }

\* Option<CloseReason>: None is <<>>, Some(reason) is its close code.
CloseReasons == { <<>>, <<1000>> }

\* b"wstomp", the payload of the heartbeat Ping.
HeartbeatPayload == <<119, 115, 116, 111, 109, 112>>

Frame(k, p) == [kind |-> k, payload |-> p]

DataKinds == {"Text", "Binary", "FirstText", "FirstBinary", "Continue", "Last"}

\* actix_http::ws::Frame, Continuation(Item::X) flattened to kind X.
WsFrames ==
    { Frame(k, p) : k \in DataKinds \cup {"Ping"}, p \in Payloads }
      \cup { Frame("Pong", <<1>>) }
      \cup { Frame("Close", r) : r \in CloseReasons }

\* Message<ToServer>: a body and whether the codec can encode it.
AppFrames ==
    { [body |-> <<1>>, encodable |-> TRUE],
      [body |-> <<2>>, encodable |-> TRUE],
      [body |-> <<2>>, encodable |-> FALSE] }

(***************************************************************************)
(* WStompEvent and WStompError.                                            *)
(***************************************************************************)
Message(m) == [type |-> "Message", kind |-> "", val |-> m]
WebsocketClosed(r) == [type |-> "WebsocketClosed", kind |-> "", val |-> r]
Error(k) == [type |-> "Error", kind |-> k, val |-> <<>>]

ErrorKinds == {"WsReceive", "WsSend", "StompDecoding", "StompEncoding",
               "IncompleteStompFrame"}

(***************************************************************************)
(* The codec.                                                              *)
(***************************************************************************)
RECURSIVE IndexOf(_, _, _)
\* The first position >= i of byte b in s, 0 when there is none.
IndexOf(s, b, i) ==
    IF i > Len(s) THEN 0
    ELSE IF s[i] = b THEN i
    ELSE IndexOf(s, b, i + 1)

\* stomp_codec.decode(&mut read_buf): Ok(Some(frame)) consumes one frame up
\* to and including its NUL and leaves the rest in the buffer, Ok(None)
\* when the buffer holds no whole frame, Err for a frame without a command.
Decode(buf) ==
    LET n == IndexOf(buf, NUL, 1) IN
    IF n = 0 THEN [res |-> "None", frame |-> <<>>, rest |-> buf]
    ELSE IF n = 1 THEN [res |-> "Err", frame |-> <<>>, rest |-> buf]
    ELSE [res |-> "Some", frame |-> SubSeq(buf, 1, n - 1),
          rest |-> SubSeq(buf, n + 1, Len(buf))]

\* The bytes of a frame the encoder produces.
Encoded(f) == f.body \o <<NUL>>

Prefixes(s) == { SubSeq(s, 1, n) : n \in 0..Len(s) }

\* stomp_codec.encode(frame, &mut encode_buf): the outcomes.  Ok appends the
\* encoded frame; Err may have appended any prefix of it before failing.
EncodeOutcomes(f, buf) ==
    IF f.encodable
    THEN { [ok |-> TRUE, buf |-> buf \o Encoded(f)] }
    ELSE { [ok |-> FALSE, buf |-> buf \o p] : p \in Prefixes(f.body) }

(***************************************************************************)
(* State.                                                                  *)
(***************************************************************************)
VARIABLES
    pc,            \* the session task: "unborn", "select", "send_wait", "done"
    read_buf,      \* BytesMut read_buf
    encode_buf,    \* BytesMut encode_buf
    app_chan,      \* outbound channel app_tx -> app_rx
    stomp_chan,    \* inbound channel stomp_tx -> stomp_rx
    pending,       \* the suspended stomp_tx.send, when pc = "send_wait"
    tx_dropped,    \* every sender of the outbound channel was dropped
    rx_dropped,    \* the receiver of the inbound channel was dropped
    ws_disabled,   \* the stream branch is disabled in the current select!
    ws_ended,      \* the inbound stream has yielded None
    beat,          \* history: flips at every heartbeat tick
    inputs,        \* number of stimuli so far
    ws_sink,       \* history: the frames handed to ws_sink.send
    events,        \* history: the events handed to stomp_tx.send
    sent_log,      \* history: the frames the outbound channel accepted
    decode_log,    \* history: the buffers handed to stomp_codec.decode
    reads,         \* history: number of items ws_stream.next() has yielded
    frag,          \* history: the fragments of the open continuation sequence
    last,          \* history: what the latest step of the session handled
    app_send,      \* the application's tx.send: suspended, or its last result
    delivered,     \* history: the events rx.recv() has returned
    recv_none,     \* history: rx.recv() has returned None
    conn,          \* the connect call: its position and its result
    sup_pc,        \* the reconnection supervisor's position in its loop
    attempt,       \* number of the supervisor's current attempt
    timer,         \* seconds the supervisor's current sleep has lasted
    sessions,      \* the session every attempt of the supervisor created
    cb_log         \* history: the outcomes passed to the callback

sessionVars == <<pc, read_buf, encode_buf, app_chan, stomp_chan, pending,
                 tx_dropped, rx_dropped, ws_disabled, ws_ended, beat, inputs,
                 ws_sink, events, sent_log, decode_log, reads, frag, last>>
appVars == <<app_send, delivered, recv_none>>
connVars == <<conn>>
supVars == <<sup_pc, attempt, timer, sessions, cb_log>>

vars == <<sessionVars, appVars, connVars, supVars>>

NoPending == [ev |-> Error(""), onOk |-> "", onErr |-> ""]
NoFrame == Frame("", <<>>)

Step(src, f) == [src |-> src, frame |-> f]

\* No continuation sequence is open.
NoFrag == [open |-> FALSE, bytes |-> <<>>, parts |-> 0]

\* The fragments sent by the peer since the First that opened the sequence,
\* as the peer sent them: First opens, Continue and Last extend an open
\* sequence, Last closes it, Ping and Pong leave it alone, any other frame
\* abandons it.
FragAfter(f, fr) ==
    CASE f.kind \in {"FirstText", "FirstBinary"} ->
              [open |-> TRUE, bytes |-> f.payload, parts |-> 1]
      [] f.kind = "Continue" /\ fr.open ->
              [open |-> TRUE, bytes |-> fr.bytes \o f.payload,
               parts |-> fr.parts + 1]
      [] f.kind = "Last" /\ fr.open ->
              [open |-> FALSE, bytes |-> fr.bytes \o f.payload,
               parts |-> fr.parts + 1]
      [] f.kind \in {"Ping", "Pong"} -> fr
      [] OTHER -> NoFrag

\* tx.send is not in progress and has not returned yet.
NoAppFrame == [body |-> <<>>, encodable |-> FALSE]
Idle == [state |-> "idle", frame |-> NoAppFrame]

\* The client was built from an open connection by the constructor itself;
\* no connect call is involved.
Direct == [pc |-> "direct", result |-> "Ok"]

\* No reconnection supervisor was started.
SupervisorOff ==
    /\ sup_pc = "off"
    /\ attempt = 0
    /\ timer = 0
    /\ sessions = <<>>
    /\ cb_log = <<>>

\* WstompClient::new has spawned the task on the open connection and handed
\* the two channel ends to the application.
Init ==
    /\ pc = "select"
    /\ read_buf = <<>>
    /\ encode_buf = <<>>
    /\ app_chan = <<>>
    /\ stomp_chan = <<>>
    /\ pending = NoPending
    /\ tx_dropped = FALSE
    /\ rx_dropped = FALSE
    /\ ws_disabled = FALSE
    /\ ws_ended = FALSE
    /\ beat = FALSE
    /\ inputs = 0
    /\ ws_sink = <<>>
    /\ events = <<>>
    /\ sent_log = <<>>
    /\ decode_log = <<>>
    /\ reads = 0
    /\ frag = NoFrag
    /\ last = Step("init", NoFrame)
    /\ app_send = Idle
    /\ delivered = <<>>
    /\ recv_none = FALSE
    /\ conn = Direct
    /\ SupervisorOff

StompTxSendDropWhenFull(ev, onOk, onErr) ==
    /\ events' = Append(events, ev)
    /\ IF rx_dropped
       THEN /\ pc' = onErr
            /\ UNCHANGED <<stomp_chan, pending>>
       ELSE IF Len(stomp_chan) < StompChannelCapacity
       THEN /\ pc' = onOk
            /\ stomp_chan' = Append(stomp_chan, ev)
            /\ UNCHANGED pending
       ELSE /\ pc' = onOk
            /\ UNCHANGED <<stomp_chan, pending>>

StompTxSendLifo(ev, onOk, onErr) ==
    /\ events' = Append(events, ev)
    /\ IF rx_dropped
       THEN /\ pc' = onErr
            /\ UNCHANGED <<stomp_chan, pending>>
       ELSE IF Len(stomp_chan) < StompChannelCapacity
       THEN /\ pc' = onOk
            /\ stomp_chan' = <<ev>> \o stomp_chan
            /\ UNCHANGED pending
       ELSE /\ pc' = "send_wait"
            /\ pending' = [ev |-> ev, onOk |-> onOk, onErr |-> onErr]
            /\ UNCHANGED stomp_chan

(***************************************************************************)
(* stomp_tx.send(ev).await: Err at once when the receiver is gone, the     *)
(* event queued when the channel has room, the task suspended otherwise.   *)
(* onOk and onErr are where the handler goes after Ok and after Err.       *)
(***************************************************************************)
StompTxSend(ev, onOk, onErr) ==
    /\ events' = Append(events, ev)
    /\ IF rx_dropped
       THEN /\ pc' = onErr
            /\ UNCHANGED <<stomp_chan, pending>>
       ELSE IF Len(stomp_chan) < StompChannelCapacity
       THEN /\ pc' = onOk
            /\ stomp_chan' = Append(stomp_chan, ev)
            /\ UNCHANGED pending
       ELSE /\ pc' = "send_wait"
            /\ pending' = [ev |-> ev, onOk |-> onOk, onErr |-> onErr]
            /\ UNCHANGED stomp_chan

\* The suspended send completes: room was made, or the receiver was dropped.
SendResume ==
    /\ pc = "send_wait"
    /\ \/ /\ rx_dropped
          /\ pc' = pending.onErr
          /\ UNCHANGED stomp_chan
       \/ /\ ~rx_dropped
          /\ Len(stomp_chan) < StompChannelCapacity
          /\ pc' = pending.onOk
          /\ stomp_chan' = Append(stomp_chan, pending.ev)
    /\ pending' = NoPending
    /\ UNCHANGED <<beat, appVars, connVars, supVars>>
    /\ UNCHANGED <<read_buf, encode_buf, app_chan, tx_dropped, rx_dropped,
                   ws_disabled, ws_ended, inputs, ws_sink, events, sent_log,
                   decode_log, reads, frag, last>>

\* ws_sink.send(msg).await, ok or failed.
SinkSend(msg, ok) ==
    ws_sink' = Append(ws_sink, [kind |-> msg.kind, payload |-> msg.payload,
                                ok |-> ok])

(***************************************************************************)
(* Branch 1: Some(Ok(ws_frame)) = ws_stream.next()                         *)
(***************************************************************************)
WsReadyWhileSuspended ==
    /\ pc \in {"select", "send_wait"}
    /\ ~ws_disabled
    /\ ~ws_ended
    /\ inputs < MaxInputs

WsReady ==
    /\ pc = "select"
    /\ ~ws_disabled
    /\ ~ws_ended
    /\ inputs < MaxInputs

\* What every handler of a stream frame f records.
WsHandled(f) ==
    /\ inputs' = inputs + 1
    /\ reads' = reads + 1
    /\ frag' = FragAfter(f, frag)
    /\ last' = Step("ws", f)
    /\ ws_disabled' = FALSE

PingReplyWrong(bytes) == Frame("Pong", HeartbeatPayload)

\* WsMessage::Pong(bytes), the reply to WsFrame::Ping(bytes).
PingReply(bytes) == Frame("Pong", bytes)

\* WsFrame::Ping(bytes)
WsPing ==
    /\ WsReady
    /\ \E p \in Payloads, ok \in BOOLEAN :
          /\ SinkSend(PingReply(p), ok)
          /\ IF ok
             THEN UNCHANGED <<pc, stomp_chan, pending, events>>
             ELSE StompTxSend(Error("WsSend"), "done", "done")
          /\ WsHandled(Frame("Ping", p))
    /\ UNCHANGED <<beat, appVars, connVars, supVars>>
    /\ UNCHANGED <<read_buf, encode_buf, app_chan, tx_dropped, rx_dropped,
                   ws_ended, sent_log, decode_log>>

\* WsFrame::Pong(_)
WsPong ==
    /\ WsReady
    /\ \E f \in { g \in WsFrames : g.kind = "Pong" } : WsHandled(f)
    /\ UNCHANGED <<beat, appVars, connVars, supVars>>
    /\ UNCHANGED <<pc, read_buf, encode_buf, app_chan, stomp_chan, pending,
                   tx_dropped, rx_dropped, ws_ended, ws_sink, events,
                   sent_log, decode_log>>

OnCloseContinue(reason) ==
    StompTxSend(WebsocketClosed(reason), "select", "select")

\* stomp_tx.send(WStompEvent::WebsocketClosed(reason)).await; break
OnClose(reason) ==
    StompTxSend(WebsocketClosed(reason), "done", "done")

\* WsFrame::Close(reason)
WsClose ==
    /\ WsReady
    /\ \E r \in CloseReasons :
          /\ OnClose(r)
          /\ WsHandled(Frame("Close", r))
    /\ UNCHANGED <<beat, appVars, connVars, supVars>>
    /\ UNCHANGED <<read_buf, encode_buf, app_chan, tx_dropped, rx_dropped,
                   ws_ended, ws_sink, sent_log, decode_log>>

ReadBufAfterNoClear(f, buf) ==
    CASE f.kind \in DataKinds -> buf \o f.payload
      [] OTHER -> buf

\* match ws_frame: the read buffer after the frame.
ReadBufAfter(f, buf) ==
    CASE f.kind \in {"Text", "Binary"} -> buf \o f.payload
      [] f.kind \in {"FirstText", "FirstBinary"} -> f.payload
      [] f.kind \in {"Continue", "Last"} -> buf \o f.payload
      [] OTHER -> buf

\* finished_reading after the match.
FinishedReading(f) == f.kind \in {"Text", "Binary", "Last"}

DecodeAndDeliverKeepRest(buf) ==
    LET d == Decode(buf) IN
    /\ decode_log' = Append(decode_log, buf)
    /\ CASE d.res = "Some" ->
              /\ read_buf' = d.rest
              /\ StompTxSend(Message(d.frame), "select", "done")
         [] d.res = "None" ->
              /\ read_buf' = d.rest
              /\ StompTxSend(Error("IncompleteStompFrame"), "done", "done")
         [] OTHER ->
              /\ read_buf' = d.rest
              /\ StompTxSend(Error("StompDecoding"), "done", "done")

DecodeAndDeliverIgnoreDrop(buf) ==
    LET d == Decode(buf) IN
    /\ decode_log' = Append(decode_log, buf)
    /\ CASE d.res = "Some" ->
              /\ read_buf' = <<>>
              /\ StompTxSend(Message(d.frame), "select", "select")
         [] d.res = "None" ->
              /\ read_buf' = d.rest
              /\ StompTxSend(Error("IncompleteStompFrame"), "done", "done")
         [] OTHER ->
              /\ read_buf' = d.rest
              /\ StompTxSend(Error("StompDecoding"), "done", "done")

DecodeAndDeliverWaitForMore(buf) ==
    LET d == Decode(buf) IN
    /\ decode_log' = Append(decode_log, buf)
    /\ CASE d.res = "Some" ->
              /\ read_buf' = <<>>
              /\ StompTxSend(Message(d.frame), "select", "done")
         [] d.res = "None" ->
              /\ read_buf' = d.rest
              /\ StompTxSend(Error("IncompleteStompFrame"), "select", "select")
         [] OTHER ->
              /\ read_buf' = d.rest
              /\ StompTxSend(Error("StompDecoding"), "done", "done")

\* if finished_reading { match stomp_codec.decode(&mut read_buf) { .. } }
DecodeAndDeliver(buf) ==
    LET d == Decode(buf) IN
    /\ decode_log' = Append(decode_log, buf)
    /\ CASE d.res = "Some" ->
              /\ read_buf' = <<>>
              /\ StompTxSend(Message(d.frame), "select", "done")
         [] d.res = "None" ->
              /\ read_buf' = d.rest
              /\ StompTxSend(Error("IncompleteStompFrame"), "done", "done")
         [] OTHER ->
              /\ read_buf' = d.rest
              /\ StompTxSend(Error("StompDecoding"), "done", "done")

\* WsFrame::Text, WsFrame::Binary, WsFrame::Continuation(item)
WsData ==
    /\ WsReady
    /\ \E f \in { g \in WsFrames : g.kind \in DataKinds } :
          /\ IF FinishedReading(f)
             THEN DecodeAndDeliver(ReadBufAfter(f, read_buf))
             ELSE /\ read_buf' = ReadBufAfter(f, read_buf)
                  /\ UNCHANGED <<pc, stomp_chan, pending, events, decode_log>>
          /\ WsHandled(f)
    /\ UNCHANGED <<beat, appVars, connVars, supVars>>
    /\ UNCHANGED <<encode_buf, app_chan, tx_dropped, rx_dropped, ws_ended,
                   ws_sink, sent_log>>

\* ws_stream.next() yields Some(Err(e)): the pattern Some(Ok(ws_frame)) does
\* not match, so select! disables the branch until the next select!.
WsReadError ==
    /\ WsReady
    /\ ws_disabled' = TRUE
    /\ inputs' = inputs + 1
    /\ reads' = reads + 1
    /\ last' = Step("ws_err", NoFrame)
    /\ UNCHANGED <<beat, appVars, connVars, supVars>>
    /\ UNCHANGED <<pc, read_buf, encode_buf, app_chan, stomp_chan, pending,
                   tx_dropped, rx_dropped, ws_ended, ws_sink, events,
                   sent_log, decode_log, frag>>

\* ws_stream.next() yields None: the pattern does not match either, and the
\* stream yields None from then on.
WsStreamEnd ==
    /\ pc = "select"
    /\ ~ws_disabled
    /\ ~ws_ended
    /\ ws_ended' = TRUE
    /\ last' = Step("ws_end", NoFrame)
    /\ UNCHANGED <<beat, appVars, connVars, supVars>>
    /\ UNCHANGED <<pc, read_buf, encode_buf, app_chan, stomp_chan, pending,
                   tx_dropped, rx_dropped, ws_disabled, inputs, ws_sink,
                   events, sent_log, decode_log, reads, frag>>

(***************************************************************************)
(* Branch 2: Some(stomp_frame_to_send) = app_rx.recv()                     *)
(***************************************************************************)
AppRxRecvNewest(chan) ==
    [frame |-> chan[Len(chan)], rest |-> SubSeq(chan, 1, Len(chan) - 1)]

\* app_rx.recv(): the frame received and the channel after it.
AppRxRecv(chan) == [frame |-> Head(chan), rest |-> Tail(chan)]

OnEncodeErrorBreak ==
    /\ StompTxSend(Error("StompEncoding"), "done", "done")
    /\ UNCHANGED ws_sink

\* Err(e) => { let _ = stomp_tx.send(StompEncoding(e).into()).await; }
OnEncodeError ==
    /\ StompTxSend(Error("StompEncoding"), "select", "select")
    /\ UNCHANGED ws_sink

OnEncodeOkDiscard(buf) ==
    /\ encode_buf' = <<>>
    /\ UNCHANGED <<ws_sink, pc, stomp_chan, pending, events>>

\* Ok(_) => { ws_sink.send(Binary(encode_buf.clone().freeze())) .. }
OnEncodeOk(buf) ==
    \E ok \in BOOLEAN :
       /\ SinkSend(Frame("Binary", buf), ok)
       /\ IF ok
          THEN /\ encode_buf' = <<>>
               /\ UNCHANGED <<pc, stomp_chan, pending, events>>
          ELSE /\ encode_buf' = buf
               /\ StompTxSend(Error("WsReceive"), "done", "done")

AppBranch ==
    /\ pc = "select"
    /\ app_chan # <<>>
    /\ LET r == AppRxRecv(app_chan) IN
       /\ app_chan' = r.rest
       /\ \E e \in EncodeOutcomes(r.frame, encode_buf) :
            IF e.ok
            THEN OnEncodeOk(e.buf)
            ELSE /\ encode_buf' = e.buf
                 /\ OnEncodeError
    /\ last' = Step("app", NoFrame)
    /\ ws_disabled' = FALSE
    /\ UNCHANGED <<beat, appVars, connVars, supVars>>
    /\ UNCHANGED <<read_buf, tx_dropped, rx_dropped, ws_ended, inputs,
                   sent_log, decode_log, reads, frag>>

(***************************************************************************)
(* Branch 3: _ = interval.tick()                                           *)
(***************************************************************************)
OnTickFatal(ok) ==
    /\ SinkSend(Frame("Ping", HeartbeatPayload), ok)
    /\ IF ok
       THEN UNCHANGED <<pc, stomp_chan, pending, events>>
       ELSE StompTxSend(Error("WsSend"), "done", "done")

\* let _ = ws_sink.send(WsMessage::Ping(b"wstomp")).await: the result of the
\* write is discarded.
OnTick(ok) ==
    /\ SinkSend(Frame("Ping", HeartbeatPayload), ok)
    /\ UNCHANGED <<pc, stomp_chan, pending, events>>

\* The history records the first MaxInputs stimuli: a later heartbeat is
\* handled, and flips beat, but its Ping is not added to ws_sink.
Tick ==
    /\ pc = "select"
    /\ beat' = ~beat
    /\ ws_disabled' = FALSE
    /\ \/ /\ inputs < MaxInputs
          /\ \E ok \in BOOLEAN : OnTick(ok)
          /\ inputs' = inputs + 1
          /\ last' = Step("tick", NoFrame)
       \/ /\ inputs = MaxInputs
          /\ UNCHANGED <<ws_sink, inputs, last>>
          /\ UNCHANGED <<pc, stomp_chan, pending, events>>
    /\ UNCHANGED <<read_buf, encode_buf, app_chan, tx_dropped, rx_dropped,
                   ws_ended, sent_log, decode_log, reads, frag>>
    /\ UNCHANGED <<appVars, connVars, supVars>>

(***************************************************************************)
(* else => break.  select! runs the else branch when every branch is       *)
(* disabled.  A branch is disabled when its future completed with a value  *)
(* its pattern does not match; the pattern of the interval branch is _,    *)
(* which matches every tick, so that branch is never disabled and the else *)
(* branch never runs: it is no action of Next.                             *)
(***************************************************************************)
WsBranchDisabled == ws_disabled \/ ws_ended
AppBranchDisabled == tx_dropped /\ app_chan = <<>>
TickBranchDisabled == FALSE
ElseBranchEnabled ==
    /\ pc = "select"
    /\ WsBranchDisabled
    /\ AppBranchDisabled
    /\ TickBranchDisabled

(***************************************************************************)
(* The application.                                                        *)
(***************************************************************************)
AppHasClientEarly ==
    conn.pc \in {"direct", "connected", "returned"} /\ conn.result # "WsClientError"

\* The application holds the client: the constructor or connect returned it.
AppHasClient == conn.pc \in {"direct", "returned"} /\ conn.result = "Ok"

TxSendOutcomeTrySend(closed, len) ==
    IF closed \/ len >= AppChannelCapacity THEN "err" ELSE "ok"

\* self.tx.send(value).await of a bounded tokio channel: Err when the
\* receiver is gone, Ok when the channel has room, suspended while it is full.
TxSendOutcome(closed, len) ==
    IF closed THEN "err"
    ELSE IF len < AppChannelCapacity THEN "ok"
    ELSE "wait"

TxSendCompletesUrgent(f, o) ==
    /\ app_send' = [state |-> o, frame |-> f]
    /\ IF o = "ok"
       THEN /\ app_chan' = <<f>> \o app_chan
            /\ sent_log' = Append(sent_log, f)
       ELSE UNCHANGED <<app_chan, sent_log>>

\* What tx.send(f) does once it is not suspended: o is "ok" or "err".
TxSendCompletes(f, o) ==
    /\ app_send' = [state |-> o, frame |-> f]
    /\ IF o = "ok"
       THEN /\ app_chan' = Append(app_chan, f)
            /\ sent_log' = Append(sent_log, f)
       ELSE UNCHANGED <<app_chan, sent_log>>

\* send(value): the receiver app_rx lives as long as the task does.
AppSend ==
    /\ AppHasClient
    /\ ~tx_dropped
    /\ app_send.state # "wait"
    /\ inputs < MaxInputs
    /\ \E f \in AppFrames :
          LET o == TxSendOutcome(pc = "done", Len(app_chan)) IN
          IF o = "wait"
          THEN /\ app_send' = [state |-> "wait", frame |-> f]
               /\ UNCHANGED <<app_chan, sent_log>>
          ELSE TxSendCompletes(f, o)
    /\ inputs' = inputs + 1
    /\ UNCHANGED <<beat, delivered, recv_none, connVars, supVars>>
    /\ UNCHANGED <<pc, read_buf, encode_buf, stomp_chan, pending, tx_dropped,
                   rx_dropped, ws_disabled, ws_ended, ws_sink, events,
                   decode_log, reads, frag, last>>

\* The suspended send(value) completes: the task made room, or it ended.
AppSendResume ==
    /\ app_send.state = "wait"
    /\ LET o == TxSendOutcome(pc = "done", Len(app_chan)) IN
       /\ o # "wait"
       /\ TxSendCompletes(app_send.frame, o)
    /\ UNCHANGED <<beat, delivered, recv_none, connVars, supVars>>
    /\ UNCHANGED <<pc, read_buf, encode_buf, stomp_chan, pending, tx_dropped,
                   rx_dropped, ws_disabled, ws_ended, inputs, ws_sink, events,
                   decode_log, reads, frag, last>>

RxRecvOutcomeEarlyNone(chan, closed) ==
    IF closed THEN "none"
    ELSE IF chan # <<>> THEN "some"
    ELSE "wait"

\* self.rx.recv().await of a tokio channel: the next buffered event, None
\* when the buffer is empty and every sender is gone, suspended otherwise.
RxRecvOutcome(chan, closed) ==
    IF chan # <<>> THEN "some"
    ELSE IF closed THEN "none"
    ELSE "wait"

\* recv(): the only sender stomp_tx lives as long as the task does.
AppRecv ==
    /\ AppHasClient
    /\ ~rx_dropped
    /\ ~recv_none
    /\ LET o == RxRecvOutcome(stomp_chan, pc = "done") IN
       \/ /\ o = "some"
          /\ stomp_chan' = Tail(stomp_chan)
          /\ delivered' = Append(delivered, Head(stomp_chan))
          /\ UNCHANGED recv_none
       \/ /\ o = "none"
          /\ recv_none' = TRUE
          /\ UNCHANGED <<stomp_chan, delivered>>
    /\ UNCHANGED <<beat, app_send, connVars, supVars>>
    /\ UNCHANGED <<pc, read_buf, encode_buf, app_chan, pending, tx_dropped,
                   rx_dropped, ws_disabled, ws_ended, inputs, ws_sink, events,
                   sent_log, decode_log, reads, frag, last>>

\* The application drops every sender of the outbound channel.
DropTx ==
    /\ AppHasClient
    /\ ~tx_dropped
    /\ app_send.state # "wait"
    /\ tx_dropped' = TRUE
    /\ UNCHANGED <<beat, appVars, connVars, supVars>>
    /\ UNCHANGED <<pc, read_buf, encode_buf, app_chan, stomp_chan, pending,
                   rx_dropped, ws_disabled, ws_ended, inputs, ws_sink, events,
                   sent_log, decode_log, reads, frag, last>>

\* The application drops the receiver of the inbound channel.
DropRx ==
    /\ AppHasClient
    /\ ~rx_dropped
    /\ rx_dropped' = TRUE
    /\ UNCHANGED <<beat, appVars, connVars, supVars>>
    /\ UNCHANGED <<pc, read_buf, encode_buf, app_chan, stomp_chan, pending,
                   tx_dropped, ws_disabled, ws_ended, inputs, ws_sink, events,
                   sent_log, decode_log, reads, frag, last>>

Next ==
    \/ WsPing
    \/ WsPong
    \/ WsClose
    \/ WsData
    \/ WsReadError
    \/ WsStreamEnd
    \/ AppBranch
    \/ Tick
    \/ SendResume
    \/ AppSend
    \/ AppSendResume
    \/ AppRecv
    \/ DropTx
    \/ DropRx

Spec == Init /\ [][Next]_vars

\* The steps the task takes on its own once they are enabled: a frame waiting
\* in the outbound channel is received, the interval fires, a suspended send
\* completes.  What the peer and the application do is not forced.
FairSpec ==
    /\ Init
    /\ [][Next]_vars
    /\ WF_vars(AppBranch)
    /\ WF_vars(Tick)
    /\ WF_vars(SendResume)

(***************************************************************************)
(* Connection establishment: build_and_connect and inner_connect           *)
(* (src/src/connect.rs), which have the same body.  The call awaits the    *)
(* WebSocket handshake, builds the client on the open connection, which    *)
(* spawns the session task, and then sends the CONNECT frame with the      *)
(* client's send, that is through the outbound channel.  Each await is a   *)
(* point where the runtime may run the spawned task.                       *)
(***************************************************************************)
\* connect_msg: Connector::builder()...msg(), a frame the codec can encode.
ConnectMsg == [body |-> <<67>>, encodable |-> TRUE]

\* The connect call has been made and awaits the handshake.
Connecting == [pc |-> "start", result |-> "none"]

\* No session task exists and no client has been handed out.
NoSession ==
    /\ pc = "unborn"
    /\ read_buf = <<>>
    /\ encode_buf = <<>>
    /\ app_chan = <<>>
    /\ stomp_chan = <<>>
    /\ pending = NoPending
    /\ tx_dropped = FALSE
    /\ rx_dropped = FALSE
    /\ ws_disabled = FALSE
    /\ ws_ended = FALSE
    /\ beat = FALSE
    /\ inputs = 0
    /\ ws_sink = <<>>
    /\ events = <<>>
    /\ sent_log = <<>>
    /\ decode_log = <<>>
    /\ reads = 0
    /\ frag = NoFrag
    /\ last = Step("init", NoFrame)
    /\ app_send = Idle
    /\ delivered = <<>>
    /\ recv_none = FALSE

\* A connect call is about to start; no session task exists yet.
ConnInit ==
    /\ NoSession
    /\ conn = Connecting
    /\ SupervisorOff

\* Ok(WStompClient::from_framed(framed_connection)) after the ? on the
\* handshake: the constructor spawns the task; a failed handshake has
\* returned before it.
FromFramed(ok) == IF ok THEN "select" ELSE "unborn"

\* client.ws(uri).stomp_connect().await?
Handshake ==
    /\ conn.pc = "start"
    /\ \E ok \in BOOLEAN :
          /\ pc' = FromFramed(ok)
          /\ conn' = IF ok THEN [pc |-> "connected", result |-> "none"]
                           ELSE [pc |-> "returned", result |-> "WsClientError"]
    /\ UNCHANGED <<read_buf, encode_buf, app_chan, stomp_chan, pending,
                   tx_dropped, rx_dropped, ws_disabled, ws_ended, beat, inputs,
                   ws_sink, events, sent_log, decode_log, reads, frag, last>>
    /\ UNCHANGED <<appVars, supVars>>

ConnectResultSwallowed(o) == "Ok"

\* .map_err(WStompConnectError::ConnectMessageFailed)?; Ok(stomp_client)
ConnectResult(o) == IF o = "ok" THEN "Ok" ELSE "ConnectMessageFailed"

\* stomp_client.send(connect_msg).await: the outbound channel is empty and
\* nobody else holds the client, so the send returns at once.  On Err the
\* client, with both its channel ends, is dropped by the return.  The frame
\* is one of the stimuli of the session as long as these are counted.
SendConnect ==
    /\ conn.pc = "connected"
    /\ LET o == TxSendOutcome(pc = "done", Len(app_chan)) IN
       /\ o # "wait"
       /\ TxSendCompletes(ConnectMsg, o)
       /\ conn' = [pc |-> "returned", result |-> ConnectResult(o)]
       /\ tx_dropped' = (o = "err")
       /\ rx_dropped' = (o = "err")
    /\ inputs' = IF inputs < MaxInputs THEN inputs + 1 ELSE inputs
    /\ UNCHANGED <<pc, read_buf, encode_buf, stomp_chan, pending, ws_disabled,
                   ws_ended, beat, ws_sink, events, decode_log, reads,
                   frag, last, delivered, recv_none>>
    /\ UNCHANGED supVars

ConnNext ==
    \/ Handshake
    \/ SendConnect
    \/ WsPing
    \/ WsPong
    \/ WsClose
    \/ WsData
    \/ WsReadError
    \/ WsStreamEnd
    \/ AppBranch
    \/ Tick
    \/ SendResume
    \/ AppSend
    \/ AppSendResume
    \/ AppRecv
    \/ DropTx
    \/ DropRx

ConnSpec == ConnInit /\ [][ConnNext]_vars

(***************************************************************************)
(* The reconnection supervisor: the task spawned by                        *)
(* build_and_connect_with_reconnection_cb (src/src/connect.rs), which      *)
(* loops over inner_connect, the callback and a sleep.  Here a session is  *)
(* its position only ("unborn", "select" while it runs, "done"), and the   *)
(* state keeps the latest MaxAttempts attempts.                            *)
(***************************************************************************)
\* sleep(Duration::from_secs(3))
SleepSecs == 3

\* The connect calls are made by the supervisor.
Supervised == [pc |-> "supervised", result |-> "none"]

\* The latest MaxAttempts entries of a log.
Window(s) == IF Len(s) > MaxAttempts THEN Tail(s) ELSE s

\* The supervisor task was spawned and is about to make its first attempt.
SupInit ==
    /\ NoSession
    /\ conn = Supervised
    /\ sup_pc = "connect"
    /\ attempt = 1
    /\ timer = 0
    /\ sessions = <<>>
    /\ cb_log = <<>>

\* inner_connect(uri, opts).await: its result and the session it leaves, for
\* a handshake that succeeds or not and a session that has ended or not
\* when the CONNECT frame is sent to its empty outbound channel.
InnerConnect(handshake_ok, ended) ==
    IF ~handshake_ok
    THEN [outcome |-> "WsClientError", session |-> FromFramed(FALSE)]
    ELSE [outcome |-> ConnectResult(TxSendOutcome(ended, 0)),
          session |-> IF ended THEN "done" ELSE FromFramed(TRUE)]

\* let tx = inner_connect(..).await; cb(tx): the callback is invoked with
\* the outcome of the attempt.
SupConnect ==
    /\ sup_pc = "connect"
    /\ \E handshake_ok \in BOOLEAN, ended \in BOOLEAN :
          LET r == InnerConnect(handshake_ok, ended) IN
          /\ sessions' = Window(Append(sessions, r.session))
          /\ cb_log' = Window(Append(cb_log, [outcome |-> r.outcome,
                                              returned |-> FALSE]))
    /\ sup_pc' = "callback"
    /\ UNCHANGED <<attempt, timer>>
    /\ UNCHANGED <<sessionVars, appVars, connVars>>

\* The future the callback returned completes.
CbReturn ==
    /\ \E i \in 1..Len(cb_log) :
          /\ ~cb_log[i].returned
          /\ cb_log' = [cb_log EXCEPT ![i].returned = TRUE]
    /\ UNCHANGED <<sup_pc, attempt, timer, sessions>>
    /\ UNCHANGED <<sessionVars, appVars, connVars>>

CbNotAwaited(returned) == TRUE

\* cb(tx).await: the supervisor goes on when the callback's future is done.
CbAwaited(returned) == returned

AfterCallbackStopOnErr(outcome) ==
    IF outcome = "Ok" THEN "sleep" ELSE "stopped"

\* What follows cb(tx).await, whatever the outcome was: the sleep.
AfterCallback(outcome) == "sleep"

\* cb(tx).await returns and sleep(..) starts.
SupAwaitCb ==
    /\ sup_pc = "callback"
    /\ CbAwaited(cb_log[Len(cb_log)].returned)
    /\ sup_pc' = AfterCallback(cb_log[Len(cb_log)].outcome)
    /\ timer' = 0
    /\ UNCHANGED <<attempt, sessions, cb_log>>
    /\ UNCHANGED <<sessionVars, appVars, connVars>>

\* One second of the sleep passes.
SleepSecond ==
    /\ sup_pc = "sleep"
    /\ timer < SleepSecs
    /\ timer' = timer + 1
    /\ UNCHANGED <<sup_pc, attempt, sessions, cb_log>>
    /\ UNCHANGED <<sessionVars, appVars, connVars>>

SleepElapsedAtOnce(t) == TRUE

\* sleep(Duration::from_secs(3)).await is over.
SleepElapsed(t) == t >= SleepSecs

\* The sleep is over and the loop starts its next attempt.
SleepDone ==
    /\ sup_pc = "sleep"
    /\ SleepElapsed(timer)
    /\ sup_pc' = "connect"
    /\ attempt' = IF attempt < MaxAttempts THEN attempt + 1 ELSE attempt
    /\ timer' = 0
    /\ UNCHANGED <<sessions, cb_log>>
    /\ UNCHANGED <<sessionVars, appVars, connVars>>

\* The loop of a session task is left and the task returns.
SessionEnds ==
    /\ \E i \in 1..Len(sessions) :
          /\ sessions[i] = "select"
          /\ sessions' = [sessions EXCEPT ![i] = "done"]
    /\ UNCHANGED <<sup_pc, attempt, timer, cb_log>>
    /\ UNCHANGED <<sessionVars, appVars, connVars>>

SupNext ==
    \/ SupConnect
    \/ CbReturn
    \/ SupAwaitCb
    \/ SleepSecond
    \/ SleepDone
    \/ SessionEnds

SupSpec == SupInit /\ [][SupNext]_vars

\* The supervisor task is scheduled when it can go on, connect attempts and
\* callbacks come to an end, and time passes.
FairSupSpec ==
    /\ SupInit
    /\ [][SupNext]_vars
    /\ WF_vars(SupConnect)
    /\ WF_vars(CbReturn)
    /\ WF_vars(SupAwaitCb)
    /\ WF_vars(SleepSecond)
    /\ WF_vars(SleepDone)

(***************************************************************************)
(* Vocabulary of the properties.                                           *)
(***************************************************************************)
\* The loop has been left, or will be as soon as the suspended send of its
\* last event completes.
Terminating ==
    \/ pc = "done"
    \/ pc = "send_wait" /\ pending.onOk = "done" /\ pending.onErr = "done"

\* The session is in its loop and will stay in it after a suspended send.
Running ==
    \/ pc = "select"
    \/ pc = "send_wait" /\ pending.onOk = "select" /\ pending.onErr = "select"

\* This step handles the frame of kind k the stream yielded.
WsStep(k) == reads' = reads + 1 /\ last'.src = "ws" /\ last'.frame.kind = k

\* This step receives a frame from the outbound channel.
AppStep == Len(app_chan') = Len(app_chan) - 1

\* This step hands a buffer to the decoder.
DecodeStep == Len(decode_log') = Len(decode_log) + 1

\* No event, no transport write, no transport read, no decode in this step.
Quiet ==
    /\ events' = events
    /\ ws_sink' = ws_sink
    /\ reads' = reads
    /\ decode_log' = decode_log

EndsWith(s, t) ==
    /\ Len(s) >= Len(t)
    /\ SubSeq(s, Len(s) - Len(t) + 1, Len(s)) = t

IsBinary(w) == w.kind = "Binary"
IsEncodable(f) == f.encodable

\* The frames the session has received from the outbound channel so far.
Received == SubSeq(sent_log, 1, Len(sent_log) - Len(app_chan))

(***************************************************************************)
(* C1  Outbound order preservation.  The Binary frames handed to the sink  *)
(* are, in order, the encodable frames among those received from the       *)
(* outbound channel, which are a prefix of the frames in the order the     *)
(* channel accepted them; the frames still queued are the rest of them.    *)
(***************************************************************************)
C1_OutboundOrder ==
    LET bin == SelectSeq(ws_sink, IsBinary)
        good == SelectSeq(Received, IsEncodable)
    IN /\ Len(app_chan) <= Len(sent_log)
       /\ app_chan = SubSeq(sent_log, Len(sent_log) - Len(app_chan) + 1,
                            Len(sent_log))
       /\ Len(bin) = Len(good)
       /\ \A i \in 1..Len(bin) : EndsWith(bin[i].payload, Encoded(good[i]))

\* Two different frames have been written in the order they were sent, with
\* a heartbeat Ping written between them.
C1_Witness ==
    LET bin == SelectSeq(ws_sink, IsBinary) IN
    /\ Len(bin) = 2
    /\ Len(ws_sink) = 3
    /\ ws_sink[2].kind = "Ping"
    /\ bin[1].payload # bin[2].payload

(***************************************************************************)
(* C2  Transport read failure is session-fatal: after the stream yielded a *)
(* read error the session has emitted Error(WsReceive) as its last event   *)
(* and is terminating.                                                     *)
(***************************************************************************)
C2_ReadErrorFatal ==
    last.src = "ws_err" =>
        /\ Terminating
        /\ events # <<>>
        /\ events[Len(events)] = Error("WsReceive")

(***************************************************************************)
(* C3  Silent shutdown: once the outbound channel is closed and drained    *)
(* and the inbound stream has ended, the loop terminates.                  *)
(***************************************************************************)
C3_SilentShutdown ==
    (pc = "select" /\ AppBranchDisabled /\ ws_ended) ~> (pc = "done")

C6_ClosePropagation ==
    [][ /\ WsStep("Close")
              => /\ events' = Append(events,
                                     WebsocketClosed(last'.frame.payload))
                 /\ ws_sink' = ws_sink
                 /\ Terminating'
        /\ (Terminating /\ last.src = "ws" /\ last.frame.kind = "Close")
              => (Terminating' /\ Quiet)
      ]_vars

\* The session ended on a Close with a reason while a frame was still queued
\* in the outbound channel.
C6_Witness ==
    /\ pc = "done"
    /\ last = Step("ws", Frame("Close", <<1000>>))
    /\ events[Len(events)] = WebsocketClosed(<<1000>>)
    /\ app_chan # <<>>

(***************************************************************************)
(* C7  Encode error isolation: the step that receives a frame the codec    *)
(* cannot encode emits exactly Error(StompEncoding), hands nothing to the  *)
(* sink and leaves the session running; the step that receives a frame the *)
(* codec can encode hands one Binary frame ending in its encoding to the   *)
(* sink, also after an earlier encode error.                               *)
(***************************************************************************)
C7_EncodeErrorIsolation ==
    [][ /\ (AppStep /\ ~Head(app_chan).encodable)
              => /\ events' = Append(events, Error("StompEncoding"))
                 /\ ws_sink' = ws_sink
                 /\ Running'
        /\ (AppStep /\ Head(app_chan).encodable)
              => /\ Len(ws_sink') = Len(ws_sink) + 1
                 /\ ws_sink'[Len(ws_sink')].kind = "Binary"
                 /\ EndsWith(ws_sink'[Len(ws_sink')].payload,
                             Encoded(Head(app_chan)))
      ]_vars

\* A frame failed to encode and the frame sent after it was written.
C7_Witness ==
    /\ Len(sent_log) = 2
    /\ ~sent_log[1].encodable
    /\ sent_log[2].encodable
    /\ app_chan = <<>>
    /\ events # <<>>
    /\ events[1] = Error("StompEncoding")
    /\ ws_sink # <<>>
    /\ ws_sink[Len(ws_sink)].kind = "Binary"
    /\ ws_sink[Len(ws_sink)].ok
    /\ pc = "select"

(***************************************************************************)
(* C8  Fragment reassembly: when Last(c) closes a sequence opened by       *)
(* First(a) and continued by Continue(b_1) .. Continue(b_n), with only     *)
(* Ping and Pong in between, the buffer handed to the decoder is           *)
(* a ++ b_1 ++ .. ++ b_n ++ c whatever the read buffer held before the     *)
(* First; First, Continue, Ping and Pong hand nothing to the decoder.      *)
(***************************************************************************)
C8_FragmentReassembly ==
    [][ /\ (WsStep("Last") /\ frag.open)
              => decode_log' =
                   Append(decode_log, frag.bytes \o last'.frame.payload)
        /\ (\E k \in {"FirstText", "FirstBinary", "Continue", "Ping", "Pong"} :
               WsStep(k))
              => decode_log' = decode_log
      ]_vars

\* A sequence of three parts was handed to the decoder as one buffer.
C8_Witness ==
    /\ last.src = "ws"
    /\ last.frame.kind = "Last"
    /\ ~frag.open
    /\ frag.parts = 3
    /\ decode_log = << frag.bytes >>
    /\ Len(frag.bytes) >= 3

(***************************************************************************)
(* C9  Standalone frame payload: after a standalone Text or Binary frame   *)
(* with payload x was handled, the buffer that was handed to the decoder   *)
(* is exactly x.                                                           *)
(***************************************************************************)
C9_StandalonePayload ==
    (last.src = "ws" /\ last.frame.kind \in {"Text", "Binary"}) =>
        /\ decode_log # <<>>
        /\ decode_log[Len(decode_log)] = last.frame.payload

(***************************************************************************)
(* C10  Ping/Pong: the step that handles Ping(p) hands exactly one frame   *)
(* to the sink, Pong(p), within the step and so before the next read; it   *)
(* leaves the read buffer unchanged, hands nothing to the decoder and      *)
(* emits no Message event.                                                 *)
(***************************************************************************)
C10_PingPong ==
    [][ WsStep("Ping")
          => /\ \E ok \in BOOLEAN :
                  ws_sink' = Append(ws_sink,
                      [kind |-> "Pong", payload |-> last'.frame.payload,
                       ok |-> ok])
             /\ read_buf' = read_buf
             /\ decode_log' = decode_log
             /\ \A i \in 1..Len(events') :
                  i > Len(events) => events'[i].type # "Message"
      ]_vars

\* A Ping between the fragments of an open sequence was answered.
C10_Witness ==
    /\ last.src = "ws"
    /\ last.frame.kind = "Ping"
    /\ frag.open
    /\ read_buf # <<>>
    /\ ws_sink # <<>>
    /\ ws_sink[Len(ws_sink)] =
          [kind |-> "Pong", payload |-> last.frame.payload, ok |-> TRUE]

(***************************************************************************)
(* Vocabulary of the channel properties.                                   *)
(***************************************************************************)
\* The event of the suspended stomp_tx.send, if the task is suspended.
PendingSeq == IF pc = "send_wait" THEN << pending.ev >> ELSE <<>>

IsPrefix(s, t) == Len(s) <= Len(t) /\ s = SubSeq(t, 1, Len(s))

IsMessage(e) == e.type = "Message"
DecodesToFrame(buf) == Decode(buf).res = "Some"

(***************************************************************************)
(* C11  Backpressure without loss: as long as the receiver is alive, the   *)
(* events the session has emitted are exactly those the application has    *)
(* received, then those queued in the inbound channel, then the one of the *)
(* suspended send; the channel never holds more than its capacity; the     *)
(* task suspends only on a full channel, and while it is suspended it      *)
(* reads nothing, writes nothing and takes nothing from the outbound       *)
(* channel.                                                                *)
(***************************************************************************)
C11_BackpressureNoLoss ==
    [][ /\ ~rx_dropped' => events' = delivered' \o stomp_chan' \o PendingSeq'
        /\ Len(stomp_chan') <= StompChannelCapacity
        /\ (pc # "send_wait" /\ pc' = "send_wait")
              => Len(stomp_chan) = StompChannelCapacity
        /\ (pc = "send_wait" /\ pc' = "send_wait")
              => /\ Quiet
                 /\ pending' = pending
                 /\ Len(app_chan') >= Len(app_chan)
      ]_vars

\* The application has received nothing, the channel is full and the task
\* is suspended with a decoded message in hand.
C11_Witness ==
    /\ pc = "send_wait"
    /\ ~rx_dropped
    /\ delivered = <<>>
    /\ Len(stomp_chan) = StompChannelCapacity
    /\ pending.ev.type = "Message"

(***************************************************************************)
(* C12  Inbound order preservation: the Message events emitted are, in     *)
(* order, the frames decoded from the finished WebSocket messages in the   *)
(* order these arrived; the events the application has received are the    *)
(* first events emitted, in that order, and the inbound channel holds the  *)
(* events emitted next, in that order.                                     *)
(***************************************************************************)
C12_InboundOrder ==
    LET msgs == SelectSeq(events, IsMessage)
        oks == SelectSeq(decode_log, DecodesToFrame)
    IN /\ Len(msgs) = Len(oks)
       /\ \A i \in 1..Len(msgs) : msgs[i].val = Decode(oks[i]).frame
       /\ IsPrefix(delivered, events)
       /\ ~rx_dropped => IsPrefix(delivered \o stomp_chan, events)

\* Two different messages were received in the order they arrived.
C12_Witness ==
    /\ Len(delivered) = 2
    /\ IsMessage(delivered[1])
    /\ IsMessage(delivered[2])
    /\ delivered[1].val # delivered[2].val
    /\ Len(decode_log) = 2
    /\ Decode(decode_log[1]).frame = delivered[1].val

(***************************************************************************)
(* C13  send fails only after the session has ended: a send returns Err    *)
(* only when the task has returned; a send on a full outbound channel of a *)
(* task that has not returned suspends and leaves the channel as it is; a  *)
(* suspended send keeps its frame, and when it returns Ok the frame is the *)
(* newest of the channel.                                                  *)
(***************************************************************************)
C13_SendFailsOnlyAfterEnd ==
    [][ /\ (app_send' # app_send /\ app_send'.state = "err") => pc = "done"
        /\ (app_send' # app_send /\ app_send.state # "wait" /\ pc # "done"
               /\ Len(app_chan) >= AppChannelCapacity)
              => /\ app_send'.state = "wait"
                 /\ app_chan' = app_chan
        /\ app_send.state = "wait"
              => /\ app_send'.frame = app_send.frame
                 /\ app_send'.state = "ok"
                       => app_chan' = Append(app_chan, app_send.frame)
      ]_vars

\* A send is suspended on the full outbound channel of a running session.
C13_Witness ==
    /\ app_send.state = "wait"
    /\ pc = "select"
    /\ Len(app_chan) = AppChannelCapacity

(***************************************************************************)
(* C14  recv yields None only after the end: when recv has returned None   *)
(* the task has returned, the inbound channel is empty and the events recv *)
(* returned before are all the events the session emitted, in order; every *)
(* event recv returns is the oldest of the channel.                        *)
(***************************************************************************)
C14_RecvNoneAfterDrain ==
    [][ /\ recv_none' => /\ pc' = "done"
                         /\ stomp_chan' = <<>>
                         /\ delivered' = events'
        /\ delivered' # delivered
              => /\ ~recv_none'
                 /\ delivered' = Append(delivered, Head(stomp_chan))
      ]_vars

\* The session ended on a Close with a message still buffered; recv returned
\* the message, then the close notification, then None.
C14_Witness ==
    /\ recv_none
    /\ Len(delivered) = 2
    /\ delivered[1].type = "Message"
    /\ delivered[2].type = "WebsocketClosed"

(***************************************************************************)
(* C20  Transport write failure outcome: a failed write of a Pong reply or *)
(* of an encoded STOMP frame is the last write of the session, the last    *)
(* event emitted is Error(WsSend), and the session is terminating.         *)
(***************************************************************************)
C20_WriteFailureIsWsSend ==
    \A i \in 1..Len(ws_sink) :
        (ws_sink[i].kind \in {"Pong", "Binary"} /\ ~ws_sink[i].ok) =>
            /\ i = Len(ws_sink)
            /\ Terminating
            /\ events # <<>>
            /\ events[Len(events)] = Error("WsSend")

(***************************************************************************)
(* Vocabulary of the supervisor properties.                                *)
(***************************************************************************)
\* The attempts, among those kept, whose session task is running.
LiveSessions == { i \in 1..Len(sessions) : sessions[i] = "select" }

\* The attempts, among those kept, whose callback has not returned.
RunningCallbacks == { i \in 1..Len(cb_log) : ~cb_log[i].returned }

(***************************************************************************)
(* C15  Supervisor sequencing: the supervisor leaves an attempt only by    *)
(* invoking the callback with the outcome of that attempt; it leaves the   *)
(* callback only when the callback has returned, and then starts a sleep   *)
(* from zero, whatever the outcome was; it starts an attempt only from a   *)
(* sleep that has lasted SleepSecs seconds, the sleep advancing one second *)
(* at a time.                                                              *)
(***************************************************************************)
C15_SupervisorSequencing ==
    [][ /\ (sup_pc = "connect" /\ sup_pc' # "connect")
              => /\ sup_pc' = "callback"
                 /\ ~cb_log'[Len(cb_log')].returned
                 /\ (cb_log'[Len(cb_log')].outcome = "WsClientError")
                       <=> (sessions'[Len(sessions')] = "unborn")
                 /\ (cb_log'[Len(cb_log')].outcome = "Ok")
                       => (sessions'[Len(sessions')] = "select")
        /\ (sup_pc = "callback" /\ sup_pc' # "callback")
              => /\ cb_log[Len(cb_log)].returned
                 /\ sup_pc' = "sleep"
                 /\ timer' = 0
        /\ (sup_pc = "sleep" /\ sup_pc' = "sleep")
              => timer' \in {timer, timer + 1}
        /\ (sup_pc # "connect" /\ sup_pc' = "connect")
              => /\ sup_pc = "sleep"
                 /\ timer = SleepSecs
      ]_vars

\* The second attempt has started after a first one that succeeded, and it
\* failed; its callback is running.
C15_Witness ==
    /\ attempt = 2
    /\ sup_pc = "callback"
    /\ cb_log = << [outcome |-> "Ok", returned |-> TRUE],
                   [outcome |-> "WsClientError", returned |-> FALSE] >>

(***************************************************************************)
(* C16  Supervisor awaits session termination: while the supervisor sleeps *)
(* or makes an attempt no session it created is running, and at most one   *)
(* session is running at any time.                                         *)
(***************************************************************************)
C16_AwaitsSessionEnd ==
    /\ Cardinality(LiveSessions) <= 1
    /\ sup_pc \in {"sleep", "connect"} => LiveSessions = {}

\* C16 as amended: the supervisor awaits the callback, not the session: it
\* makes an attempt only when every callback it invoked has returned, so at
\* most one callback is running at any time and only the session of the
\* latest attempt can be in the hands of a running callback.
C16_AwaitsCallbackOnly ==
    [][ /\ (sup_pc = "connect" /\ sup_pc' # "connect") => RunningCallbacks = {}
        /\ Cardinality(RunningCallbacks') <= 1
        /\ RunningCallbacks' \subseteq {Len(cb_log')}
      ]_vars

\* The callbacks of two successful attempts have returned and both sessions
\* are still running while the supervisor sleeps.
C16_Witness ==
    /\ sup_pc = "sleep"
    /\ Cardinality(LiveSessions) = 2
    /\ RunningCallbacks = {}

(***************************************************************************)
(* C17  Reconnection liveness: again and again the supervisor makes an     *)
(* attempt and again and again it invokes the callback; it never stops.    *)
(***************************************************************************)
C17_ReconnectionLiveness ==
    /\ []<>(sup_pc = "connect")
    /\ []<>(sup_pc = "callback" /\ ~cb_log[Len(cb_log)].returned)

\* Every handshake so far has failed and the callback has just been invoked
\* once more.
C17_Witness ==
    /\ attempt = MaxAttempts
    /\ sup_pc = "callback"
    /\ Len(cb_log) = MaxAttempts
    /\ \A i \in 1..Len(cb_log) : cb_log[i].outcome = "WsClientError"
    /\ RunningCallbacks = {Len(cb_log)}
    /\ \A i \in 1..Len(sessions) : sessions[i] = "unborn"

(***************************************************************************)
(* Vocabulary of the connection properties.                                *)
(***************************************************************************)
\* The Binary frames handed to the sink.
BinaryWrites == SelectSeq(ws_sink, IsBinary)

\* The CONNECT frame was written to the transport.
ConnectWritten ==
    \E i \in 1..Len(ws_sink) :
        ws_sink[i] = [kind |-> "Binary", payload |-> Encoded(ConnectMsg),
                      ok |-> TRUE]

\* The write of the CONNECT frame to the transport failed.
ConnectWriteFailed ==
    /\ BinaryWrites # <<>>
    /\ BinaryWrites[1].payload = Encoded(ConnectMsg)
    /\ ~BinaryWrites[1].ok

(***************************************************************************)
(* C18  Handshake-before-session ordering: a session task exists, and      *)
(* anything is written to the transport, only after the CONNECT frame was  *)
(* written to the transport.                                               *)
(***************************************************************************)
C18_SessionAfterConnect ==
    (pc # "unborn" \/ ws_sink # <<>>) => ConnectWritten

\* C18 as amended: no session task exists and nothing is written or emitted
\* before the handshake has succeeded; the task exists from the handshake
\* on, before CONNECT is sent; CONNECT is the first frame the outbound
\* channel accepts and the first Binary frame the loop hands to the sink;
\* connect returns Ok only with CONNECT accepted by the channel.
C18_ConnectIsFirstFrame ==
    /\ conn.pc = "start" => pc = "unborn"
    /\ pc = "unborn" => (ws_sink = <<>> /\ events = <<>> /\ sent_log = <<>>)
    /\ conn.pc = "connected" => (pc # "unborn" /\ sent_log = <<>>)
    /\ sent_log # <<>> => sent_log[1] = ConnectMsg
    /\ BinaryWrites # <<>> => BinaryWrites[1].payload = Encoded(ConnectMsg)

\* The loop wrote a heartbeat Ping, then CONNECT, then a frame of the
\* application.
C18_Witness ==
    /\ conn.result = "Ok"
    /\ Len(ws_sink) = 3
    /\ ws_sink[1].kind = "Ping"
    /\ ws_sink[2] = [kind |-> "Binary", payload |-> Encoded(ConnectMsg),
                     ok |-> TRUE]
    /\ ws_sink[3].kind = "Binary"

C21_ExactOutboundPayload ==
    [][ AppStep =>
          /\ encode_buf = <<>>
          /\ Head(app_chan).encodable =>
                /\ Len(ws_sink') = Len(ws_sink) + 1
                /\ ws_sink'[Len(ws_sink')].kind = "Binary"
                /\ ws_sink'[Len(ws_sink')].payload = Encoded(Head(app_chan))
      ]_vars

(***************************************************************************)
(* C22  Heartbeat: the step that handles a heartbeat tick hands exactly    *)
(* one frame to the sink, Ping("wstomp"); whether that write succeeds or   *)
(* fails, the step offers no event, stays in the loop, and changes neither *)
(* the read buffer nor the write buffer.  (The history of writes records   *)
(* the ticks among the first MaxInputs stimuli.)                           *)
(***************************************************************************)
TickStep == beat' # beat

C22_Heartbeat ==
    [][ TickStep =>
          /\ pc = "select" /\ pc' = "select"
          /\ events' = events
          /\ stomp_chan' = stomp_chan
          /\ read_buf' = read_buf
          /\ encode_buf' = encode_buf
          /\ inputs < MaxInputs =>
                /\ Len(ws_sink') = Len(ws_sink) + 1
                /\ SubSeq(ws_sink', 1, Len(ws_sink)) = ws_sink
                /\ ws_sink'[Len(ws_sink')].kind = "Ping"
                /\ ws_sink'[Len(ws_sink')].payload = HeartbeatPayload
      ]_vars

\* A heartbeat Ping failed to be written while the read buffer held a
\* fragment; the session offered no event and wrote the next heartbeat Ping.
C22_Witness ==
    /\ Len(ws_sink) = 2
    /\ ws_sink[1] = [kind |-> "Ping", payload |-> HeartbeatPayload,
                     ok |-> FALSE]
    /\ ws_sink[2] = [kind |-> "Ping", payload |-> HeartbeatPayload,
                     ok |-> TRUE]
    /\ last.src = "tick"
    /\ events = <<>>
    /\ read_buf # <<>>
    /\ pc = "select"

(***************************************************************************)
(* Vocabulary of the event-count properties.                               *)
(***************************************************************************)
\* This step offers exactly the event e to the inbound channel.
Offers(e) == events' = Append(events, e)

\* The event the decode outcome d is reported by.
DecodeEvent(d) ==
    CASE d.res = "Some" -> Message(d.frame)
      [] d.res = "None" -> Error("IncompleteStompFrame")
      [] OTHER -> Error("StompDecoding")

\* What the steps handling a data frame or a Pong offer: a frame that
\* finishes a message offers the one event of its decode outcome, and a
\* successful decode leaves the read buffer empty whatever followed the
\* decoded frame; First, Continue and Pong offer nothing.
EventPerFinishedMessage ==
    /\ (\E k \in {"Text", "Binary", "Last"} : WsStep(k))
          => /\ DecodeStep
             /\ LET d == Decode(decode_log'[Len(decode_log')]) IN
                /\ Offers(DecodeEvent(d))
                /\ d.res = "Some" => read_buf' = <<>>
    /\ (\E k \in {"FirstText", "FirstBinary", "Continue", "Pong"} : WsStep(k))
          => events' = events

(***************************************************************************)
(* C23  One event per finished message: the step that handles a Text,      *)
(* Binary or Last frame offers exactly one event, Message on decode        *)
(* success and one Error otherwise, and leaves the read buffer empty after *)
(* a successful decode; the steps that handle First, Continue, Ping and    *)
(* Pong frames offer no event.                                             *)
(***************************************************************************)
C23_OneEventPerFinishedMessage ==
    [][ /\ EventPerFinishedMessage
        /\ WsStep("Ping") => events' = events
      ]_vars

\* C23 as amended: as above, except that the step that handles a Ping
\* offers no event when the Pong was written and exactly Error(WsSend) when
\* the write of the Pong failed.
C23_OneEventPerFinishedOrFailedPong ==
    [][ /\ EventPerFinishedMessage
        /\ WsStep("Ping") =>
              IF ws_sink'[Len(ws_sink')].ok
              THEN events' = events
              ELSE Offers(Error("WsSend"))
      ]_vars

\* A fragmented message holding two STOMP frames was decoded to one Message,
\* the second frame was discarded, and a Ping whose Pong could not be
\* written then offered Error(WsSend).
C23_Witness ==
    /\ decode_log = << <<1, NUL, 1, NUL>> >>
    /\ events = << Message(<<1>>), Error("WsSend") >>
    /\ read_buf = <<>>
    /\ last.src = "ws"
    /\ last.frame.kind = "Ping"

(***************************************************************************)
(* A session under backpressure.  StallSpec is the session of Spec taken   *)
(* up at the point where both channels are full: the peer has sent         *)
(* StompChannelCapacity whole messages, each decoded and queued in the     *)
(* inbound channel, of which the application has received none, and the    *)
(* application has then sent AppChannelCapacity frames, all accepted by    *)
(* the outbound channel, and is suspended in the send of one more, before  *)
(* the loop was polled again.  The environment gives MaxStallInputs        *)
(* further stimuli.                                                        *)
(***************************************************************************)
\* Number of stimuli the environment gives once both channels are full.
MaxStallInputs == 1

Repeat(x, n) == [i \in 1..n |-> x]

\* The message of the peer and the frame of the application that fill the
\* channels.
StallMessage == Frame("Text", <<1, NUL>>)
StallFrame == [body |-> <<1>>, encodable |-> TRUE]

StallInit ==
    /\ pc = "select"
    /\ read_buf = <<>>
    /\ encode_buf = <<>>
    /\ app_chan = Repeat(StallFrame, AppChannelCapacity)
    /\ stomp_chan = Repeat(Message(<<1>>), StompChannelCapacity)
    /\ pending = NoPending
    /\ tx_dropped = FALSE
    /\ rx_dropped = FALSE
    /\ ws_disabled = FALSE
    /\ ws_ended = FALSE
    /\ beat = FALSE
    /\ inputs = MaxInputs - MaxStallInputs
    /\ ws_sink = <<>>
    /\ events = Repeat(Message(<<1>>), StompChannelCapacity)
    /\ sent_log = Repeat(StallFrame, AppChannelCapacity)
    /\ decode_log = Repeat(StallMessage.payload, StompChannelCapacity)
    /\ reads = StompChannelCapacity
    /\ frag = NoFrag
    /\ last = Step("ws", StallMessage)
    /\ app_send = [state |-> "wait", frame |-> StallFrame]
    /\ delivered = <<>>
    /\ recv_none = FALSE
    /\ conn = Direct
    /\ SupervisorOff

StallSpec == StallInit /\ [][Next]_vars

\* The scheduling of FairSpec.
FairStallSpec ==
    /\ StallSpec
    /\ WF_vars(AppBranch)
    /\ WF_vars(Tick)
    /\ WF_vars(SendResume)

(***************************************************************************)
(* Vocabulary of the accepted-frame properties.                            *)
(***************************************************************************)
\* The loop is suspended in stomp_tx.send(..).await on a full inbound channel.
Stalled == pc = "send_wait"

\* Once the session terminates nothing is written and no event is offered
\* any more, and the frames queued in the outbound channel stay there; the
\* step that does receive a frame writes it as a Binary frame or offers
\* Error(StompEncoding).
QueuedAtTerminationLost ==
    [][ /\ Terminating
           => /\ ws_sink' = ws_sink
              /\ events' = events
              /\ IsPrefix(app_chan, app_chan')
        /\ AppStep
           => \/ /\ Len(ws_sink') = Len(ws_sink) + 1
                 /\ ws_sink'[Len(ws_sink')].kind = "Binary"
              \/ /\ Offers(Error("StompEncoding"))
                 /\ ws_sink' = ws_sink
      ]_vars

\* A frame is queued in the outbound channel: send returned Ok for it and
\* the loop has not received it.
AcceptedUnsent == app_chan # <<>>

(***************************************************************************)
(* C24  Accepted-but-unsent frames: a frame the outbound channel accepted  *)
(* and that is still queued when the session terminates is never written   *)
(* and no event reports its loss; until the session terminates, every      *)
(* accepted frame is eventually received by the loop, which writes it or   *)
(* offers Error(StompEncoding).  The application sends finitely many       *)
(* frames and the channel is a queue, so every queued frame is eventually  *)
(* received exactly when the channel is eventually empty.                  *)
(***************************************************************************)
C24_AcceptedFramesHandledWhileRunning ==
    /\ QueuedAtTerminationLost
    /\ AcceptedUnsent ~> (~AcceptedUnsent \/ Terminating)

\* C24 as amended: the same, unless the loop stays suspended forever in the
\* delivery of an event to a full inbound channel.
C24_AcceptedFramesHandledUnlessStalled ==
    /\ QueuedAtTerminationLost
    /\ [](AcceptedUnsent
            => \/ <>(~AcceptedUnsent \/ Terminating)
               \/ <>[]Stalled)

\* The frames the outbound channel had accepted were still queued when a
\* Close of the peer ended the session.
C24_Witness ==
    /\ pc = "done"
    /\ Len(app_chan) = AppChannelCapacity
    /\ IsPrefix(app_chan, sent_log)
    /\ events # <<>>
    /\ events[Len(events)].type = "WebsocketClosed"
    /\ \A i \in 1..Len(ws_sink) : ws_sink[i].kind # "Binary"

(***************************************************************************)
(* Vocabulary of the stall properties.                                     *)
(***************************************************************************)
\* The inbound channel is full and its receiver alive: a suspended
\* stomp_tx.send cannot complete.
InboundFull == ~rx_dropped /\ Len(stomp_chan) = StompChannelCapacity

\* The application is suspended in send on a full outbound channel.
AppBlocked == app_send.state = "wait" /\ Len(app_chan) = AppChannelCapacity

(***************************************************************************)
(* C25  Stall freezes all three sources: while the loop is suspended in    *)
(* the delivery of an event to a full inbound channel, no step reads an    *)
(* inbound frame, writes a Pong, a Binary frame or a heartbeat Ping,       *)
(* handles a tick, receives from the outbound channel or offers an event;  *)
(* the loop stays suspended as long as the channel is full and its         *)
(* receiver alive, so it resumes only after the application has received   *)
(* an event or dropped the receiver; with the application suspended in     *)
(* send on a full outbound channel, the only steps possible are a recv or  *)
(* a drop of the receiver by the application.                              *)
(***************************************************************************)
C25_StallFreezesSources ==
    [][ Stalled =>
          /\ reads' = reads
          /\ ws_sink' = ws_sink
          /\ beat' = beat
          /\ events' = events
          /\ decode_log' = decode_log
          /\ IsPrefix(app_chan, app_chan')
          /\ read_buf' = read_buf /\ encode_buf' = encode_buf
          /\ InboundFull => Stalled' /\ pending' = pending
          /\ (InboundFull /\ AppBlocked) =>
                \/ delivered' = Append(delivered, Head(stomp_chan))
                \/ rx_dropped'
      ]_vars

\* The loop is suspended delivering a Message to the full inbound channel
\* while the application is suspended in send on the full outbound channel.
C25_Witness ==
    /\ Stalled
    /\ pending.onOk = "select"
    /\ pending.ev.type = "Message"
    /\ InboundFull
    /\ AppBlocked
    /\ delivered = <<>>

(***************************************************************************)
(* C26  CONNECT first: in a session created by a connect call, the first   *)
(* Binary frame handed to the sink carries exactly the encoded CONNECT     *)
(* frame, and every Binary frame carrying anything else comes after it;    *)
(* until the call has returned the handle, the outbound channel has        *)
(* accepted no frame but CONNECT.  A heartbeat Ping may come before        *)
(* CONNECT.                                                                *)
(***************************************************************************)
C26_ConnectFirst ==
    /\ \A i \in 1..Len(ws_sink) :
          (IsBinary(ws_sink[i]) /\ ws_sink[i].payload # Encoded(ConnectMsg))
             => \E j \in 1..(i - 1) :
                   /\ IsBinary(ws_sink[j])
                   /\ ws_sink[j].payload = Encoded(ConnectMsg)
                   /\ \A k \in 1..(j - 1) : ~IsBinary(ws_sink[k])
    /\ ~AppHasClient => (sent_log = <<>> \/ sent_log = <<ConnectMsg>>)
    /\ AppHasClient => (sent_log # <<>> /\ sent_log[1] = ConnectMsg)

\* The loop wrote a heartbeat Ping and then CONNECT while a frame the
\* application had sent through the returned handle was queued behind it.
C26_Witness ==
    /\ AppHasClient
    /\ Len(sent_log) = 2
    /\ app_chan = << sent_log[2] >>
    /\ Len(ws_sink) = 2
    /\ ws_sink[1].kind = "Ping"
    /\ ws_sink[2] = [kind |-> "Binary", payload |-> Encoded(ConnectMsg),
                     ok |-> TRUE]
    /\ pc = "select"

====
